---- MODULE Spec2Model ----
(***************************************************************************)
(* Verification model of backend/open_webui/retrieval/loaders/             *)
(* ocrprocessor.py: the resumable page-batch scheduler ocr_pdf_fallback    *)
(* with its checkpoint file, the engine gate (READTEXT_LOCK), the          *)
(* concurrency gateway (OCR_SEMAPHORE) and layout_to_markdown.             *)
(***************************************************************************)
EXTENDS Integers, Sequences, FiniteSets, TLC

\* ------------------------------------------------------------------ bounds
MaxPages == 4
MaxBatch == 3
MaxRuns == 2
MaxDet == 3
NumCallers == 3
NumWorkers == 2
MaxJobs == 2
NumKeys == 2

VARIABLES
  \* ---- one document and the runs of ocr_pdf_fallback on it
  ckptFile,        \* the checkpoint file on disk: [state, data]
  pc,              \* position of the current run of ocr_pdf_fallback
  run,             \* number of runs started so far
  num_pages,       \* len(pdf_document)
  batch_size,      \* the local batch_size (halved on backoff)
  range_step,      \* step of range(0, num_pages, batch_size), fixed at loop entry
  batch_start,     \* loop variable of the for statement
  processed_pages, \* list loaded from the checkpoint, appended per accepted page
  extracted_docs,  \* list of Document records
  failed_batches,  \* list of page numbers
  page_nums,       \* the current window after removing processed pages
  images,          \* pages of the window that were rasterized
  idx,             \* position of the for loop over future_to_page
  fut,             \* page -> state of its future in OCR_EXECUTOR
  result,          \* what the run returned: [kind, docs]
  \* ---- history of the current run
  loaded,          \* set of pages loaded from the checkpoint at the start
  ckpt0,           \* the checkpoint file as it was when the run started
  ocr_submitted,   \* pages submitted to OCR_EXECUTOR, in order
  attempted,       \* pages of the windows handed to extract_images_from_pages
  raised,          \* pages whose future.result() raised a non-OOM RuntimeError
  ckpt_deleted,    \* the run removed an existing checkpoint file
  prev_full,       \* the run before this one completed with every page accepted
  oom_pages,       \* unprocessed pages of windows that met CUDA out of memory and
                   \* have not been submitted since
  completed,       \* pages of the current window in the order their futures finished
  \* ---- layout_to_markdown applied to a list of detections and to a reordering
  ocr_results,     \* the list of detections given to layout_to_markdown
  reordered,       \* the same detections in another order
  lay_out,         \* layout_to_markdown(ocr_results)
  lay_out2,        \* layout_to_markdown(reordered)
  lay_pc,          \* "input", "first" (lay_out computed), "both"
  \* ---- callers of async_ocr_pdf_fallback / async_ocr_image, pool and lock
  sem,             \* permits left in OCR_SEMAPHORE
  cstate,          \* caller -> "idle", "waiting", "running", "calling"
  ckind,           \* caller -> "pdf" or "image"
  cpending,        \* caller -> futures of its run not yet finished
  craised,         \* caller -> a future of the current window raised
  last_end,        \* how a run ended, if one did since the last permit was taken
  queue,           \* work queue of OCR_EXECUTOR: the callers whose page waits
  tstate,          \* thread -> "free", "enter" (in perform_ocr), "readtext"
  tjob,            \* thread -> the run that awaits its _perform_ocr call, or 0
  lock,            \* READTEXT_LOCK: 0 when free, else the holding thread
  \* ---- get_cached_ocr_processor called by the threads of OCR_EXECUTOR
  ocr_processor_cache, \* _ocr_processor_cache: key -> instance, 0 when the key is absent
  gpc,             \* thread -> position in get_cached_ocr_processor
  gkey,            \* thread -> the key of its call
  gnew,            \* thread -> the OCRProcessor it constructed, not yet stored
  constructed,     \* key -> number of OCRProcessor objects constructed for it
  returned         \* key -> the instances returned by calls with that key

schedVars == <<ckptFile, pc, run, num_pages, batch_size, range_step, batch_start,
               processed_pages, extracted_docs, failed_batches, page_nums, images,
               idx, fut, result, loaded, ckpt0, ocr_submitted, attempted, raised,
               ckpt_deleted, prev_full, oom_pages, completed>>

layVars == <<ocr_results, reordered, lay_out, lay_out2, lay_pc>>

gateVars == <<sem, cstate, ckind, cpending, craised, last_end, queue,
              tstate, tjob, lock>>

cacheVars == <<ocr_processor_cache, gpc, gkey, gnew, constructed, returned>>

vars == <<schedVars, layVars, gateVars, cacheVars>>

\* ----------------------------------------------------------------- helpers
Range(s) == {s[i] : i \in DOMAIN s}

Min(a, b) == IF a <= b THEN a ELSE b

Max(a, b) == IF a >= b THEN a ELSE b

NoDup(s) == \A i, j \in DOMAIN s : i # j => s[i] # s[j]

Pages == 0 .. (MaxPages - 1)

Outcomes == {"text", "empty", "oom", "rterr", "exc"}

PyRange_Reversed(a, b) == [i \in 1 .. Max(0, b - a) |-> b - i]

\* list(range(a, b))
PyRange(a, b) == [i \in 1 .. Max(0, b - a) |-> a + i - 1]

\* ------------------------------------------------------- checkpoint store
AbsentFile == [state |-> "absent", data |-> <<>>]

CorruptFile == [state |-> "corrupt", data |-> <<>>]

\* load_checkpoint: the stored list, [] when the file is missing or undecodable
load_checkpoint(file) == IF file.state = "ok" THEN file.data ELSE <<>>

\* save_checkpoint: json.dump of the whole list over any prior content
save_checkpoint(file, pp) == [state |-> "ok", data |-> pp]

os_remove_Noop(file) == file

\* os.remove(checkpoint_path); a missing file raises OSError, which is logged
os_remove(file) == AbsentFile

\* ----------------------------------------------------- scheduler helpers
Halve_NoFloor(b) == b \div 2

\* batch_size = max(1, batch_size // 2)
Halve(b) == Max(1, b \div 2)

RemainingPages_NoFilter(bstart, bsize, n, pp) ==
  PyRange(bstart, Min(bstart + bsize, n))

\* page_nums = [pn for pn in range(batch_start, batch_end) if pn not in processed_pages]
RemainingPages(bstart, bsize, n, pp) ==
  SelectSeq(PyRange(bstart, Min(bstart + bsize, n)), LAMBDA pn : pn \notin Range(pp))

\* extract_images_from_pages: the pages whose rasterization gave bytes, in order
extract_images_from_pages(pns, ok) == SelectSeq(pns, LAMBDA pn : pn \in ok)

AppendProcessed_Overwrite(pp, pn) == <<pn>>

\* processed_pages.append(page_num)
AppendProcessed(pp, pn) == Append(pp, pn)

\* Document(page_content=convert_to_markdown(text, page_num), metadata={...})
MakeDocument(pn) ==
  [header |-> pn + 1, page_number |-> pn, image_format |-> "png"]

ExtendFailed_Drop(failed, pns) == failed

\* failed_batches.extend(page_nums)
ExtendFailed(failed, pns) == failed \o pns

KeepsCheckpoint_Inverted(failed) == failed = <<>>

\* `if failed_batches:` keeps the checkpoint, else it is removed
KeepsCheckpoint(failed) == failed # <<>>

NoFutures == [p \in Pages |-> "none"]

NoResult == [kind |-> "none", docs |-> <<>>]

\* ------------------------------------------------------ layout_to_markdown
\* vertical_threshold=10
VerticalThreshold == 10

\* A detection (bbox, text, conf): top = bbox[0][1], bottom = bbox[2][1];
\* confidences are in percent.
Detections ==
  {[top |-> t, bottom |-> t + h, text |-> tc[1], conf |-> tc[2]] :
     t \in {0, 15, 40}, h \in {5, 20}, tc \in {<<"Hello", 90>>, <<"World", 80>>}}

BoundedSeq(S, n) == UNION {[1 .. k -> S] : k \in 0 .. n}

None == [some |-> FALSE, num |-> 0, den |-> 1]

\* last_bottom = None
NoBottom == [some |-> FALSE, y |-> 0]

\* sorted() places an element after every element whose key is not greater
InsertByTop(sorted, d) ==
  LET k == Cardinality({i \in DOMAIN sorted : sorted[i].top <= d.top})
  IN SubSeq(sorted, 1, k) \o <<d>> \o SubSeq(sorted, k + 1, Len(sorted))

SortedByTop_Unsorted(results) == results

\* sorted(ocr_results, key=lambda res: res[0][0][1]), a stable sort
RECURSIVE SortedByTop(_)
SortedByTop(results) ==
  IF results = <<>> THEN <<>>
  ELSE InsertByTop(SortedByTop(SubSeq(results, 1, Len(results) - 1)),
                   results[Len(results)])

\* sep.join(parts): the parts with one separator between neighbours
RECURSIVE Join(_, _)
Join(parts, sep) ==
  IF parts = <<>> THEN <<>>
  ELSE IF Len(parts) = 1 THEN parts[1]
  ELSE parts[1] \o <<sep>> \o Join(Tail(parts), sep)

StartsParagraph_AtLeast(top, last_bottom, vertical_threshold) ==
  last_bottom.some /\ (top - last_bottom.y) >= vertical_threshold

\* last_bottom is not None and (top - last_bottom) > vertical_threshold
StartsParagraph(top, last_bottom, vertical_threshold) ==
  last_bottom.some /\ (top - last_bottom.y) > vertical_threshold

\* The for loop over sorted_results and the final flush: the list of paragraphs.
RECURSIVE Paragraphs(_, _, _, _, _)
Paragraphs(sorted, i, paragraphs, current_paragraph, last_bottom) ==
  IF i > Len(sorted)
    THEN IF current_paragraph # <<>>
           THEN Append(paragraphs, Join(current_paragraph, " "))
           ELSE paragraphs
    ELSE LET d == sorted[i]
             flush == StartsParagraph(d.top, last_bottom, VerticalThreshold)
         IN Paragraphs(sorted, i + 1,
                       IF flush THEN Append(paragraphs, Join(current_paragraph, " "))
                                ELSE paragraphs,
                       IF flush THEN << <<d.text>> >>
                                ELSE Append(current_paragraph, <<d.text>>),
                       [some |-> TRUE, y |-> d.bottom])

RECURSIVE SumConf(_)
SumConf(results) ==
  IF results = <<>> THEN 0 ELSE results[1].conf + SumConf(Tail(results))

\* sum(confidences) / len(confidences) if confidences else None, as a fraction
AverageConfidence(sorted) ==
  IF sorted = <<>> THEN None
  ELSE [some |-> TRUE, num |-> SumConf(sorted), den |-> Len(sorted)]

\* layout_to_markdown(ocr_results): (markdown_text, avg_conf); the markdown is
\* the sequence of its pieces (texts, " " and "\n\n")
layout_to_markdown(results) ==
  LET sorted == SortedByTop(results)
  IN [markdown_text |-> Join(Paragraphs(sorted, 1, <<>>, <<>>, NoBottom), "\n\n"),
      avg_conf |-> AverageConfidence(sorted)]

NoLayout == [markdown_text |-> <<>>, avg_conf |-> None]

\* layout_to_markdown has not been called.
LayStart ==
  /\ reordered = <<>>
  /\ lay_out = NoLayout
  /\ lay_out2 = NoLayout
  /\ lay_pc = "input"

\* ------------------------------------------- concurrency gateway and gate
\* OCR_CONCURRENCY = int(os.getenv("OCR_CONCURRENCY", 2))
OCR_CONCURRENCY == 2

Callers == 1 .. NumCallers

\* the threads of OCR_EXECUTOR (max_workers=os.cpu_count())
Workers == 1 .. NumWorkers

\* the default-executor thread that runs the blocking call of caller c
RunThread(c) == NumWorkers + c

Threads == 1 .. (NumWorkers + NumCallers)

SemaphoreFree_Always(value) == TRUE

\* asyncio.Semaphore.acquire proceeds only while the value is positive
SemaphoreFree(value) == value > 0

LockFree_Always(holder) == TRUE

\* threading.Lock.acquire proceeds only while no thread holds the lock
LockFree(holder) == holder = 0

ReleasedLock_Kept(holder) == holder

\* leaving `with READTEXT_LOCK:` releases the lock, also on an exception
ReleasedLock(holder) == 0

\* leaving `async with OCR_SEMAPHORE:` calls release(), also on an exception
ReleasedPermit(value) == value + 1


\* Module import: semaphore full, lock free, pool idle, no caller.
GateStart ==
  /\ sem = OCR_CONCURRENCY
  /\ cstate = [c \in Callers |-> "idle"]
  /\ ckind = [c \in Callers |-> "pdf"]
  /\ cpending = [c \in Callers |-> 0]
  /\ craised = [c \in Callers |-> FALSE]
  /\ last_end = "none"
  /\ queue = <<>>
  /\ tstate = [t \in Threads |-> "free"]
  /\ tjob = [t \in Threads |-> 0]
  /\ lock = 0

\* ------------------------------------------------ the processor cache
\* the keys (id(ocr_reader), ocr_engine) used by the callers
Keys == 1 .. NumKeys

\* _ocr_processor_cache = {} and no thread inside get_cached_ocr_processor
CacheStart ==
  /\ ocr_processor_cache = [k \in Keys |-> 0]
  /\ gpc = [w \in Workers |-> "out"]
  /\ gkey = [w \in Workers |-> 1]
  /\ gnew = [w \in Workers |-> 0]
  /\ constructed = [k \in Keys |-> 0]
  /\ returned = [k \in Keys |-> {}]

\* ------------------------------------------------------------------- Init
\* No run of ocr_pdf_fallback has started.
SchedStart ==
  /\ ckptFile = AbsentFile
  /\ pc = "idle"
  /\ run = 0
  /\ batch_size = 1
  /\ range_step = 1
  /\ batch_start = 0
  /\ processed_pages = <<>>
  /\ extracted_docs = <<>>
  /\ failed_batches = <<>>
  /\ page_nums = <<>>
  /\ images = <<>>
  /\ idx = 1
  /\ fut = NoFutures
  /\ result = NoResult
  /\ loaded = {}
  /\ ckpt0 = AbsentFile
  /\ ocr_submitted = <<>>
  /\ attempted = {}
  /\ raised = {}
  /\ ckpt_deleted = FALSE
  /\ prev_full = FALSE
  /\ oom_pages = {}
  /\ completed = <<>>

Init ==
  /\ CacheStart
  /\ SchedStart
  /\ num_pages \in 0 .. MaxPages
  /\ LayStart
  /\ ocr_results = <<>>
  /\ GateStart

\* Whether the run that just ended returned normally with every page processed.
CompletedFull ==
  /\ pc = "done"
  /\ result.kind = "docs"
  /\ \A p \in 0 .. (num_pages - 1) : p \in Range(processed_pages)

\* The state at line 355, after get_checkpoint_path and load_checkpoint.
EnterRun(b) ==
  /\ UNCHANGED <<layVars, gateVars, cacheVars>>
  /\ pc \in {"idle", "done"}
  /\ run < MaxRuns
  /\ run' = run + 1
  /\ prev_full' = CompletedFull
  /\ batch_size' = b
  /\ range_step' = b
  /\ batch_start' = 0
  /\ processed_pages' = load_checkpoint(ckptFile)
  /\ loaded' = Range(load_checkpoint(ckptFile))
  /\ ckpt0' = ckptFile
  /\ extracted_docs' = <<>>
  /\ failed_batches' = <<>>
  /\ page_nums' = <<>>
  /\ images' = <<>>
  /\ idx' = 1
  /\ fut' = NoFutures
  /\ ocr_submitted' = <<>>
  /\ attempted' = {}
  /\ raised' = {}
  /\ ckpt_deleted' = FALSE
  /\ oom_pages' = {}
  /\ completed' = <<>>
  /\ UNCHANGED <<ckptFile, num_pages>>

\* ocr_pdf_fallback called; fitz.open succeeds and the for loop is entered.
StartRun ==
  \E b \in 1 .. MaxBatch :
    /\ EnterRun(b)
    /\ pc' = "loop"
    /\ result' = NoResult

\* ocr_pdf_fallback called; fitz.open raises: `except Exception: return []`.
OpenFails ==
  \E b \in 1 .. MaxBatch :
    /\ EnterRun(b)
    /\ pc' = "done"
    /\ result' = [kind |-> "aborted", docs |-> <<>>]

Abort ==
  /\ pc' = "done"
  /\ result' = [kind |-> "aborted", docs |-> <<>>]

\* `continue` / end of the loop body: the for statement takes its next value.
NextIteration == batch_start' = batch_start + range_step

\* The window holds no page outside processed_pages: `continue`.
SkipWindow ==
  /\ UNCHANGED <<layVars, gateVars, cacheVars>>
  /\ pc = "loop"
  /\ batch_start < num_pages
  /\ RemainingPages(batch_start, batch_size, num_pages, processed_pages) = <<>>
  /\ NextIteration
  /\ page_nums' = <<>>
  /\ UNCHANGED <<ckptFile, pc, run, num_pages, batch_size, range_step,
                 processed_pages, extracted_docs, failed_batches, images, idx, fut,
                 result, loaded, ckpt0, ocr_submitted, attempted, raised,
                 ckpt_deleted, prev_full, oom_pages, completed>>

\* No page of the window could be rasterized: `if images:` is skipped.
NoImages ==
  /\ UNCHANGED <<layVars, gateVars, cacheVars>>
  /\ pc = "loop"
  /\ batch_start < num_pages
  /\ LET pns == RemainingPages(batch_start, batch_size, num_pages, processed_pages)
     IN /\ pns # <<>>
        /\ page_nums' = pns
        /\ attempted' = attempted \cup Range(pns)
  /\ images' = <<>>
  /\ completed' = <<>>
  /\ NextIteration
  /\ UNCHANGED <<ckptFile, pc, run, num_pages, batch_size, range_step,
                 processed_pages, extracted_docs, failed_batches, idx, fut,
                 result, loaded, ckpt0, ocr_submitted, raised,
                 ckpt_deleted, prev_full, oom_pages>>

\* Rasterize the window and submit one _perform_ocr per image to OCR_EXECUTOR.
SubmitWindow ==
  /\ UNCHANGED <<layVars, gateVars, cacheVars>>
  /\ pc = "loop"
  /\ batch_start < num_pages
  /\ LET pns == RemainingPages(batch_start, batch_size, num_pages, processed_pages)
     IN /\ pns # <<>>
        /\ page_nums' = pns
        /\ attempted' = attempted \cup Range(pns)
        /\ \E ok \in (SUBSET Range(pns)) \ {{}} :
             LET imgs == extract_images_from_pages(pns, ok)
             IN /\ images' = imgs
                /\ fut' = [p \in Pages |-> IF p \in Range(imgs) THEN "pending" ELSE fut[p]]
                /\ ocr_submitted' = ocr_submitted \o imgs
                /\ oom_pages' = oom_pages \ Range(imgs)
  /\ completed' = <<>>
  /\ idx' = 1
  /\ pc' = "collect"
  /\ UNCHANGED <<ckptFile, run, num_pages, batch_size, range_step, batch_start,
                 processed_pages, extracted_docs, failed_batches,
                 result, loaded, ckpt0, raised, ckpt_deleted, prev_full>>

\* A pool worker finishes _perform_ocr for page p with outcome o.
Complete ==
  \E p \in Pages, o \in Outcomes :
    /\ UNCHANGED <<layVars, gateVars, cacheVars>>
    /\ pc \in {"loop", "collect", "memcheck", "finish"}
    /\ fut[p] = "pending"
    /\ fut' = [fut EXCEPT ![p] = o]
    /\ completed' = IF p \in Range(images) THEN Append(completed, p) ELSE completed
    /\ UNCHANGED <<ckptFile, pc, run, num_pages, batch_size, range_step, batch_start,
                   processed_pages, extracted_docs, failed_batches, page_nums, images,
                   idx, result, loaded, ckpt0, ocr_submitted, attempted, raised,
                   ckpt_deleted, prev_full, oom_pages>>

Collecting == pc = "collect" /\ idx <= Len(images)

\* future.result() returned non-empty text: the page is accepted.
ResultText ==
  /\ UNCHANGED <<layVars, gateVars, cacheVars>>
  /\ Collecting
  /\ fut[images[idx]] = "text"
  /\ extracted_docs' = Append(extracted_docs, MakeDocument(images[idx]))
  /\ processed_pages' = AppendProcessed(processed_pages, images[idx])
  /\ ckptFile' = save_checkpoint(ckptFile, processed_pages')
  /\ idx' = idx + 1
  /\ UNCHANGED <<pc, run, num_pages, batch_size, range_step, batch_start,
                 failed_batches, page_nums, images, fut, result, loaded, ckpt0,
                 ocr_submitted, attempted, raised, ckpt_deleted, prev_full, oom_pages, completed>>

\* future.result() returned ("", None): `if text:` is false, nothing is recorded.
ResultEmpty ==
  /\ UNCHANGED <<layVars, gateVars, cacheVars>>
  /\ Collecting
  /\ fut[images[idx]] = "empty"
  /\ idx' = idx + 1
  /\ UNCHANGED <<ckptFile, pc, run, num_pages, batch_size, range_step, batch_start,
                 processed_pages, extracted_docs, failed_batches, page_nums, images,
                 fut, result, loaded, ckpt0, ocr_submitted, attempted, raised,
                 ckpt_deleted, prev_full, oom_pages, completed>>

\* future.result() raised RuntimeError("CUDA out of memory"): halve, `continue`.
ResultOOM ==
  /\ UNCHANGED <<layVars, gateVars, cacheVars>>
  /\ Collecting
  /\ fut[images[idx]] = "oom"
  /\ batch_size' = Halve(batch_size)
  /\ oom_pages' = oom_pages \cup (Range(page_nums) \ Range(processed_pages))
  /\ NextIteration
  /\ pc' = "loop"
  /\ UNCHANGED <<ckptFile, run, num_pages, range_step,
                 processed_pages, extracted_docs, failed_batches, page_nums, images,
                 idx, fut, result, loaded, ckpt0, ocr_submitted, attempted, raised,
                 ckpt_deleted, prev_full, completed>>

\* future.result() raised another RuntimeError: failed_batches.extend(page_nums).
ResultRuntimeError ==
  /\ UNCHANGED <<layVars, gateVars, cacheVars>>
  /\ Collecting
  /\ fut[images[idx]] = "rterr"
  /\ failed_batches' = ExtendFailed(failed_batches, page_nums)
  /\ raised' = raised \cup {images[idx]}
  /\ pc' = "memcheck"
  /\ UNCHANGED <<ckptFile, run, num_pages, batch_size, range_step, batch_start,
                 processed_pages, extracted_docs, page_nums, images,
                 idx, fut, result, loaded, ckpt0, ocr_submitted, attempted,
                 ckpt_deleted, prev_full, oom_pages, completed>>

\* future.result() raised an exception that is no RuntimeError: the outer
\* `except Exception` returns [].
ResultException ==
  /\ UNCHANGED <<layVars, gateVars, cacheVars>>
  /\ Collecting
  /\ fut[images[idx]] = "exc"
  /\ Abort
  /\ UNCHANGED <<ckptFile, run, num_pages, batch_size, range_step, batch_start,
                 processed_pages, extracted_docs, failed_batches, page_nums, images,
                 idx, fut, loaded, ckpt0, ocr_submitted, attempted, raised,
                 ckpt_deleted, prev_full, oom_pages, completed>>

\* The for loop over future_to_page is exhausted.
WindowCollected ==
  /\ UNCHANGED <<layVars, gateVars, cacheVars>>
  /\ pc = "collect"
  /\ idx > Len(images)
  /\ pc' = "memcheck"
  /\ UNCHANGED <<ckptFile, run, num_pages, batch_size, range_step, batch_start,
                 processed_pages, extracted_docs, failed_batches, page_nums, images,
                 idx, fut, result, loaded, ckpt0, ocr_submitted, attempted, raised,
                 ckpt_deleted, prev_full, oom_pages, completed>>

\* psutil.virtual_memory(): above 80 percent the batch size is halved.
MemCheck ==
  \E high \in BOOLEAN :
    /\ UNCHANGED <<layVars, gateVars, cacheVars>>
    /\ pc = "memcheck"
    /\ batch_size' = IF high THEN Halve(batch_size) ELSE batch_size
    /\ NextIteration
    /\ pc' = "loop"
    /\ UNCHANGED <<ckptFile, run, num_pages, range_step,
                   processed_pages, extracted_docs, failed_batches, page_nums, images,
                   idx, fut, result, loaded, ckpt0, ocr_submitted, attempted, raised,
                   ckpt_deleted, prev_full, oom_pages, completed>>

\* range(0, num_pages, batch_size) is exhausted.
LoopExit ==
  /\ UNCHANGED <<layVars, gateVars, cacheVars>>
  /\ pc = "loop"
  /\ batch_start >= num_pages
  /\ pc' = "finish"
  /\ UNCHANGED <<ckptFile, run, num_pages, batch_size, range_step, batch_start,
                 processed_pages, extracted_docs, failed_batches, page_nums, images,
                 idx, fut, result, loaded, ckpt0, ocr_submitted, attempted, raised,
                 ckpt_deleted, prev_full, oom_pages, completed>>

\* Lines 424-433: keep or remove the checkpoint, return extracted_docs.
Finish ==
  /\ UNCHANGED <<layVars, gateVars, cacheVars>>
  /\ pc = "finish"
  /\ IF KeepsCheckpoint(failed_batches)
       THEN UNCHANGED <<ckptFile, ckpt_deleted>>
       ELSE /\ ckptFile' = os_remove(ckptFile)
            /\ ckpt_deleted' = (ckptFile.state # "absent")
  /\ result' = [kind |-> "docs", docs |-> extracted_docs]
  /\ pc' = "done"
  /\ UNCHANGED <<run, num_pages, batch_size, range_step, batch_start,
                 processed_pages, extracted_docs, failed_batches, page_nums, images,
                 idx, fut, loaded, ckpt0, ocr_submitted, attempted, raised,
                 prev_full, oom_pages, completed>>

\* The run's local state is lost when the process dies.
LoseRun ==
  /\ UNCHANGED <<layVars, gateVars, cacheVars>>
  /\ pc' = "idle"
  /\ batch_size' = 1
  /\ range_step' = 1
  /\ batch_start' = 0
  /\ processed_pages' = <<>>
  /\ extracted_docs' = <<>>
  /\ failed_batches' = <<>>
  /\ page_nums' = <<>>
  /\ images' = <<>>
  /\ idx' = 1
  /\ fut' = NoFutures
  /\ result' = NoResult
  /\ loaded' = {}
  /\ ckpt0' = AbsentFile
  /\ ocr_submitted' = <<>>
  /\ attempted' = {}
  /\ raised' = {}
  /\ ckpt_deleted' = FALSE
  /\ prev_full' = FALSE
  /\ oom_pages' = {}
  /\ completed' = <<>>
  /\ UNCHANGED <<run, num_pages>>

\* The process is killed during a run; the checkpoint file stays as written.
Interrupt ==
  /\ pc \in {"loop", "collect", "memcheck", "finish"}
  /\ LoseRun
  /\ UNCHANGED ckptFile

\* The process is killed inside save_checkpoint, after open(path, "w") truncated
\* the file and before json.dump wrote it.
InterruptInSave ==
  /\ Collecting
  /\ fut[images[idx]] = "text"
  /\ LoseRun
  /\ ckptFile' = CorruptFile

Next ==
  \/ StartRun
  \/ OpenFails
  \/ SkipWindow
  \/ NoImages
  \/ SubmitWindow
  \/ Complete
  \/ ResultText
  \/ ResultEmpty
  \/ ResultOOM
  \/ ResultRuntimeError
  \/ ResultException
  \/ WindowCollected
  \/ MemCheck
  \/ LoopExit
  \/ Finish
  \/ Interrupt
  \/ InterruptInSave

Spec == Init /\ [][Next]_vars

\* -------------------------------------------- layout_to_markdown, applied
InitLayout ==
  /\ CacheStart
  /\ SchedStart
  /\ num_pages = 0
  /\ LayStart
  /\ ocr_results \in BoundedSeq(Detections, MaxDet)
  /\ GateStart

\* layout_to_markdown(ocr_results)
CallLayout ==
  /\ lay_pc = "input"
  /\ lay_out' = layout_to_markdown(ocr_results)
  /\ lay_pc' = "first"
  /\ UNCHANGED <<schedVars, gateVars, cacheVars, ocr_results, reordered, lay_out2>>

\* layout_to_markdown on the same detections in another order
CallReordered ==
  /\ lay_pc = "first"
  /\ \E f \in Permutations(DOMAIN ocr_results) :
       /\ reordered' = [i \in DOMAIN ocr_results |-> ocr_results[f[i]]]
       /\ lay_out2' = layout_to_markdown(reordered')
  /\ lay_pc' = "both"
  /\ UNCHANGED <<schedVars, gateVars, cacheVars, ocr_results, lay_out>>

NextLayout ==
  \/ CallLayout
  \/ CallReordered

SpecLayout == InitLayout /\ [][NextLayout]_vars

\* ----------------------------------- async wrappers, OCR_EXECUTOR, the lock
InitGate ==
  /\ CacheStart
  /\ SchedStart
  /\ num_pages = 0
  /\ LayStart
  /\ ocr_results = <<>>
  /\ GateStart

\* A coroutine calls async_ocr_pdf_fallback or async_ocr_image and reaches
\* `async with OCR_SEMAPHORE`.
CallAsync ==
  \E c \in Callers :
    /\ cstate[c] = "idle"
    /\ cstate' = [cstate EXCEPT ![c] = "waiting"]
    /\ UNCHANGED <<schedVars, layVars, cacheVars, sem, ckind, cpending, craised, last_end, queue,
                   tstate, tjob, lock>>

\* OCR_SEMAPHORE.acquire() succeeds; the blocking function (ocr_pdf_fallback
\* or ocr_image, the same wrapper code for both) is handed to
\* loop.run_in_executor(None, ...).
AcquirePermit ==
  \E c \in Callers, k \in {"pdf", "image"} :
    /\ cstate[c] = "waiting"
    /\ SemaphoreFree(sem)
    /\ sem' = sem - 1
    /\ cstate' = [cstate EXCEPT ![c] = "running"]
    /\ ckind' = [ckind EXCEPT ![c] = k]
    /\ last_end' = "none"
    /\ UNCHANGED <<schedVars, layVars, cacheVars, cpending, craised, queue, tstate, tjob, lock>>

\* The futures of the window have been awaited, or the loop over them was left
\* through an exception.
WindowOver(c) == cpending[c] = 0 \/ craised[c]

\* The futures a run no longer waits for belong to no run.
Orphaned(owner, c) == IF owner = c THEN 0 ELSE owner

\* ocr_pdf_fallback submits the pages of its next window to OCR_EXECUTOR.
SubmitPages ==
  \E c \in Callers, k \in 1 .. MaxJobs :
    /\ cstate[c] = "running"
    /\ ckind[c] = "pdf"
    /\ WindowOver(c)
    /\ Len(queue) + k <= MaxJobs
    /\ cpending' = [cpending EXCEPT ![c] = k]
    /\ craised' = [craised EXCEPT ![c] = FALSE]
    /\ queue' = [i \in DOMAIN queue |-> Orphaned(queue[i], c)] \o [i \in 1 .. k |-> c]
    /\ tjob' = [t \in Threads |-> Orphaned(tjob[t], c)]
    /\ UNCHANGED <<schedVars, layVars, cacheVars, sem, cstate, ckind, last_end, tstate, lock>>

\* A free pool thread takes the next _perform_ocr call from the queue.
WorkerTake ==
  \E w \in Workers :
    /\ tstate[w] = "free"
    /\ queue # <<>>
    /\ tjob' = [tjob EXCEPT ![w] = Head(queue)]
    /\ queue' = Tail(queue)
    /\ tstate' = [tstate EXCEPT ![w] = "enter"]
    /\ UNCHANGED <<schedVars, layVars, cacheVars, sem, cstate, ckind, cpending, craised,
                   last_end, lock>>

\* ocr_image calls _perform_ocr in the thread of its own run.
ImageCall ==
  \E c \in Callers :
    /\ cstate[c] = "running"
    /\ ckind[c] = "image"
    /\ cstate' = [cstate EXCEPT ![c] = "calling"]
    /\ cpending' = [cpending EXCEPT ![c] = 1]
    /\ tjob' = [tjob EXCEPT ![RunThread(c)] = c]
    /\ tstate' = [tstate EXCEPT ![RunThread(c)] = "enter"]
    /\ UNCHANGED <<schedVars, layVars, cacheVars, sem, ckind, craised, last_end, queue, lock>>

\* The thread leaves _perform_ocr: the call returned (text, avg_conf), or an
\* exception escaped it.
LeaveCall(t, raises) ==
  /\ tstate' = [tstate EXCEPT ![t] = "free"]
  /\ tjob' = [tjob EXCEPT ![t] = 0]
  /\ IF tjob[t] = 0
       THEN UNCHANGED <<cpending, craised>>
       ELSE /\ cpending' = [cpending EXCEPT ![tjob[t]] = @ - 1]
            /\ craised' = [craised EXCEPT ![tjob[t]] = @ \/ raises]

\* perform_ocr, easyocr branch: `with READTEXT_LOCK:` is entered.
AcquireLock ==
  \E t \in Threads :
    /\ tstate[t] = "enter"
    /\ LockFree(lock)
    /\ lock' = t
    /\ tstate' = [tstate EXCEPT ![t] = "readtext"]
    /\ UNCHANGED <<schedVars, layVars, cacheVars, sem, cstate, ckind, cpending, craised,
                   last_end, queue, tjob>>

\* reader.readtext returns or raises; either way the with statement releases
\* the lock, and the rest of _perform_ocr runs without it.
ReadtextEnds ==
  \E t \in Threads, raises \in BOOLEAN :
    /\ tstate[t] = "readtext"
    /\ lock' = ReleasedLock(lock)
    /\ LeaveCall(t, raises)
    /\ UNCHANGED <<schedVars, layVars, cacheVars, sem, cstate, ckind, last_end, queue>>

\* perform_ocr with an ocr_reader that is no easyocr.Reader (pytesseract,
\* paddleocr, unsupported): readtext is not called and no lock is taken. The
\* reader is an argument of every call, so either branch can be the one taken.
PlainCall ==
  \E t \in Threads, raises \in BOOLEAN :
    /\ tstate[t] = "enter"
    /\ LeaveCall(t, raises)
    /\ UNCHANGED <<schedVars, layVars, cacheVars, sem, cstate, ckind, last_end, queue, lock>>

\* The permit goes back and the caller's run is over.
LeaveRun(c, how) ==
  /\ sem' = ReleasedPermit(sem)
  /\ last_end' = how
  /\ cstate' = [cstate EXCEPT ![c] = "idle"]
  /\ ckind' = [ckind EXCEPT ![c] = "pdf"]
  /\ cpending' = [cpending EXCEPT ![c] = 0]
  /\ craised' = [craised EXCEPT ![c] = FALSE]
  /\ queue' = [i \in DOMAIN queue |-> Orphaned(queue[i], c)]
  /\ tjob' = [t \in Threads |-> Orphaned(tjob[t], c)]
  /\ UNCHANGED <<schedVars, layVars, cacheVars, tstate, lock>>

\* ocr_pdf_fallback returns extracted_docs, returns [] (the outer except) or
\* raises (get_checkpoint_path is outside the try); leaving `async with`
\* gives the permit back in each case.
PdfRunEnds ==
  \E c \in Callers, how \in {"records", "empty", "raised"} :
    /\ cstate[c] = "running"
    /\ ckind[c] = "pdf"
    /\ WindowOver(c)
    /\ LeaveRun(c, how)

\* ocr_image returns its Document or [] (every exception is caught inside).
ImageRunEnds ==
  \E c \in Callers, how \in {"records", "empty"} :
    /\ ckind[c] = "image"
    /\ \/ cstate[c] = "running" /\ how = "empty"
       \/ cstate[c] = "calling" /\ tstate[RunThread(c)] = "free"
                                /\ (craised[c] => how = "empty")
    /\ LeaveRun(c, how)

NextGate ==
  \/ CallAsync
  \/ AcquirePermit
  \/ SubmitPages
  \/ WorkerTake
  \/ ImageCall
  \/ AcquireLock
  \/ ReadtextEnds
  \/ PlainCall
  \/ PdfRunEnds
  \/ ImageRunEnds

SpecGate == InitGate /\ [][NextGate]_vars

\* Scheduling of the threads and of the event loop, given that every
\* rasterization and every raw OCR call returns:
\*  - a free thread of OCR_EXECUTOR takes queued work;
\*  - reader.readtext returns;
\*  - a thread blocked on READTEXT_LOCK gets it when it is released often enough;
\*  - asyncio.Semaphore wakes a waiter when a permit is free;
\*  - ocr_image goes on to its OCR call or returns, and returns after the call;
\*  - range(0, num_pages, batch_size) is finite, so a run of ocr_pdf_fallback
\*    whose windows keep coming to an end does not submit windows forever.
GateFairness ==
  /\ WF_vars(WorkerTake)
  /\ WF_vars(ReadtextEnds)
  /\ \A t \in Threads : SF_vars(AcquireLock /\ lock' = t)
  /\ WF_vars(AcquirePermit)
  /\ \A c \in Callers : WF_vars((ImageCall \/ ImageRunEnds) /\ cstate'[c] # cstate[c])
  /\ \A c \in Callers : SF_vars(PdfRunEnds /\ cstate'[c] # cstate[c])

SpecGateFair == SpecGate /\ GateFairness

\* ------------------------------------ get_cached_ocr_processor, by threads
InitCache ==
  /\ CacheStart
  /\ SchedStart
  /\ num_pages = 0
  /\ LayStart
  /\ ocr_results = <<>>
  /\ GateStart

\* A pool thread enters _perform_ocr and calls get_cached_ocr_processor:
\* key = (id(ocr_reader), ocr_engine)
CallGet ==
  \E w \in Workers, k \in Keys :
    /\ gpc[w] = "out"
    /\ gkey' = [gkey EXCEPT ![w] = k]
    /\ gpc' = [gpc EXCEPT ![w] = "check"]
    /\ UNCHANGED <<schedVars, layVars, gateVars, ocr_processor_cache, gnew,
                   constructed, returned>>

\* `if key not in _ocr_processor_cache:`
Lookup ==
  \E w \in Workers :
    /\ gpc[w] = "check"
    /\ gpc' = [gpc EXCEPT ![w] = IF ocr_processor_cache[gkey[w]] = 0
                                   THEN "construct" ELSE "return"]
    /\ UNCHANGED <<schedVars, layVars, gateVars, ocr_processor_cache, gkey, gnew,
                   constructed, returned>>

\* OCRProcessor(ocr_reader, ocr_engine): a new object, the right-hand side of
\* the assignment
Construct ==
  \E w \in Workers :
    /\ gpc[w] = "construct"
    /\ constructed' = [constructed EXCEPT ![gkey[w]] = @ + 1]
    /\ gnew' = [gnew EXCEPT ![w] = constructed'[gkey[w]]]
    /\ gpc' = [gpc EXCEPT ![w] = "store"]
    /\ UNCHANGED <<schedVars, layVars, gateVars, ocr_processor_cache, gkey, returned>>

\* _ocr_processor_cache[key] = <the new object>
Store ==
  \E w \in Workers :
    /\ gpc[w] = "store"
    /\ ocr_processor_cache' = [ocr_processor_cache EXCEPT ![gkey[w]] = gnew[w]]
    /\ gnew' = [gnew EXCEPT ![w] = 0]
    /\ gpc' = [gpc EXCEPT ![w] = "return"]
    /\ UNCHANGED <<schedVars, layVars, gateVars, gkey, constructed, returned>>

\* return _ocr_processor_cache[key]
ReturnCached ==
  \E w \in Workers :
    /\ gpc[w] = "return"
    /\ returned' = [returned EXCEPT ![gkey[w]] = @ \cup {ocr_processor_cache[gkey[w]]}]
    /\ gpc' = [gpc EXCEPT ![w] = "out"]
    /\ UNCHANGED <<schedVars, layVars, gateVars, ocr_processor_cache, gkey, gnew,
                   constructed>>

NextCache ==
  \/ CallGet
  \/ Lookup
  \/ Construct
  \/ Store
  \/ ReturnCached

SpecCache == InitCache /\ [][NextCache]_vars

\* ------------------------------------------------------------------ claims
AllPages == 0 .. (num_pages - 1)

\* pages accepted in the current run
Accepted == {extracted_docs[i].page_number : i \in DOMAIN extracted_docs}

RunEnded == pc = "done"

InRun == pc \in {"loop", "collect", "memcheck", "finish"}

\* C1: a run that ends with some page index of 0..num_pages-1 outside
\* processed_pages has not deleted the checkpoint: the checkpoint is retained
\* and a re-run resumes from the recorded set.
C1_DeletedOnlyIfAllProcessed ==
  (RunEnded /\ result.kind = "docs" /\ ~(AllPages \subseteq Range(processed_pages))) =>
    Range(load_checkpoint(ckptFile)) = Range(processed_pages)

C3_ResumeSkipsCheckpointed ==
  (pc # "idle") =>
    /\ attempted \cap loaded = {}
    /\ Range(ocr_submitted) \cap loaded = {}
    /\ Accepted \cap loaded = {}

C3_Witness ==
  /\ RunEnded
  /\ result.kind = "docs"
  /\ loaded # {}
  /\ Cardinality(loaded) < num_pages
  /\ Accepted # {}

C5_FailureIsolation ==
  (RunEnded /\ \E q \in Pages : fut[q] \in {"rterr", "exc"}) =>
    \A p \in Pages :
      fut[p] = "text" => \E i \in DOMAIN result.docs : result.docs[i].page_number = p

\* C6: within a run batch_size never increases and is never below 1.
C6_BackoffMonotone ==
  [][(InRun /\ pc' # "idle") => (batch_size' <= batch_size /\ batch_size' >= 1)]_vars

C6_Witness ==
  /\ pc = "loop"
  /\ range_step >= 2
  /\ batch_size = 1
  /\ batch_start > 0
  /\ batch_start < num_pages

\* C7: within a run processed_pages is only appended to and holds no page twice.
C7_ProcessedOnlyGrows ==
  [][(pc' # "idle") =>
       /\ NoDup(processed_pages')
       /\ (run' = run =>
             /\ Len(processed_pages) <= Len(processed_pages')
             /\ SubSeq(processed_pages', 1, Len(processed_pages)) = processed_pages)]_vars

C7_Witness ==
  /\ RunEnded
  /\ loaded # {}
  /\ Len(processed_pages) > Cardinality(loaded)

DistinctTops(results) ==
  \A i, j \in DOMAIN results : i # j => results[i].top # results[j].top

\* C10 (as stated): any two orderings of the same detections give the same
\* markdown text and the same average confidence.
C10_OrderIndependent ==
  (lay_pc = "both") => lay_out2 = lay_out

\* C10 (amended): any two orderings of detections whose top-y coordinates are
\* pairwise distinct give the same markdown text and the same average
\* confidence.
C10_OrderIndependentDistinctTops ==
  (lay_pc = "both" /\ DistinctTops(ocr_results)) => lay_out2 = lay_out

C10_Witness ==
  /\ lay_pc = "both"
  /\ DistinctTops(ocr_results)
  /\ Len(ocr_results) >= 3
  /\ reordered # ocr_results
  /\ reordered # SortedByTop(ocr_results)
  /\ ocr_results # SortedByTop(ocr_results)
  /\ Len(Paragraphs(SortedByTop(ocr_results), 1, <<>>, <<>>, NoBottom)) = 2

\* The separator the grouping rule puts before the i-th detection of a list
\* in ascending top-y order.
SeparatorBefore(sorted, i) ==
  IF sorted[i].top - sorted[i - 1].bottom > VerticalThreshold THEN "\n\n" ELSE " "

\* The text the grouping rule prescribes: the texts in order, each but the
\* first preceded by its separator.
RECURSIVE GroupedText(_, _)
GroupedText(sorted, n) ==
  IF n = 0 THEN <<>>
  ELSE IF n = 1 THEN <<sorted[1].text>>
  ELSE GroupedText(sorted, n - 1) \o <<SeparatorBefore(sorted, n), sorted[n].text>>

IsAscending(results) ==
  \A i, j \in DOMAIN results : i < j => results[i].top <= results[j].top

\* C11: layout_to_markdown takes the detections in ascending top-y order,
\* starts a new paragraph before a detection exactly when its top-y minus the
\* bottom-y of the detection before it exceeds vertical_threshold, joins the
\* texts of a paragraph by single spaces and the paragraphs by a blank line,
\* and returns the mean confidence over all detections; the empty input gives
\* the empty string and no confidence.
C11_ParagraphGrouping ==
  (lay_pc # "input") =>
    LET sorted == SortedByTop(ocr_results)
    IN /\ IsAscending(sorted)
       /\ lay_out.markdown_text = GroupedText(sorted, Len(sorted))
       /\ (ocr_results # <<>> =>
             /\ lay_out.avg_conf.some
             /\ lay_out.avg_conf.den = Len(ocr_results)
             /\ lay_out.avg_conf.num = SumConf(ocr_results))
       /\ (ocr_results = <<>> =>
             /\ lay_out.markdown_text = <<>>
             /\ ~lay_out.avg_conf.some)

C11_Witness ==
  /\ lay_pc # "input"
  /\ Len(ocr_results) = 3
  /\ ~IsAscending(ocr_results)
  /\ LET sorted == SortedByTop(ocr_results)
     IN /\ sorted[2].top - sorted[1].bottom = VerticalThreshold
        /\ sorted[3].top - sorted[2].bottom > VerticalThreshold
        /\ sorted[1].conf # sorted[3].conf

\* C12: the record of an accepted page with zero-based index i has the
\* page_number i+1, the number shown in its '# [Page N]:' header.
C12_PageNumberOneIndexed ==
  \A k \in DOMAIN extracted_docs :
    LET i == processed_pages[Len(processed_pages) - Len(extracted_docs) + k]
    IN /\ extracted_docs[k].header = i + 1
       /\ extracted_docs[k].page_number = i + 1

\* C13: when CUDA out of memory is signalled while a window is processed,
\* every page of that window not yet in processed_pages is submitted to OCR
\* again later in the same run, so that none is left when the run returns its
\* records.
C13_OomWindowRetried ==
  (RunEnded /\ result.kind = "docs") => oom_pages = {}

\* C14: in a run that does not abort, the attempted windows cover the page
\* range: every page index of 0..num_pages-1 outside the loaded checkpoint
\* belongs to an attempted window, wherever batch_size was halved.
C14_WindowsCoverAllPages ==
  (RunEnded /\ result.kind = "docs") => (AllPages \ loaded) \subseteq attempted

\* C15: while the pages of a window are submitted and collected, no OCR call
\* submitted for an earlier window of the run is still unfinished, also after
\* a page of the earlier window raised an exception or out of memory.
C15_WindowsSequential ==
  (pc = "collect") => \A p \in Pages : fut[p] = "pending" => p \in Range(images)

\* C16: when a run is aborted by a hard exception and returns the empty
\* result, the checkpoint file is as it was when the run started.
C16_AbortLeavesCheckpoint ==
  (RunEnded /\ result.kind = "aborted") => ckptFile = ckpt0

\* how often page p was submitted to OCR_EXECUTOR in the run
Submissions(p) == Cardinality({i \in DOMAIN ocr_submitted : ocr_submitted[i] = p})

\* the window of the run that holds page p: windows start at multiples of the
\* step of range(0, num_pages, batch_size)
WindowOf(p) == p \div range_step

Pos(s, x) == CHOOSE i \in DOMAIN s : s[i] = x

\* the pages of the records, in the order of the records
RecordPages(docs) == [k \in DOMAIN docs |-> docs[k].page_number]

\* C18 (as stated): the records are in completion order: of two records of
\* pages of one window, the first is the one whose OCR call finished first.
C18_CompletionOrder ==
  \A k, l \in DOMAIN extracted_docs :
    LET p == extracted_docs[k].page_number
        q == extracted_docs[l].page_number
    IN (k < l /\ p \in Range(images) /\ q \in Range(images)) =>
         Pos(completed, p) < Pos(completed, q)

\* C18 (amended): the records are in submission order, whatever the order in
\* which the OCR calls finish: they are the accepted pages in the order in
\* which the pages were submitted, which is ascending page order, and a run
\* that returns normally returns them in that order.
C18_SubmissionOrder ==
  (pc # "idle") =>
    /\ RecordPages(extracted_docs) =
         SelectSeq(ocr_submitted, LAMBDA p : p \in Accepted)
    /\ \A k, l \in DOMAIN extracted_docs :
         k < l => extracted_docs[k].page_number < extracted_docs[l].page_number
    /\ ((RunEnded /\ result.kind = "docs") => result.docs = extracted_docs)

C18_Witness ==
  /\ RunEnded
  /\ result.kind = "docs"
  /\ \E k, l \in DOMAIN result.docs :
       LET p == result.docs[k].page_number
           q == result.docs[l].page_number
       IN /\ k < l
          /\ p \in Range(images)
          /\ q \in Range(images)
          /\ Pos(completed, q) < Pos(completed, p)

\* C19: every page that a run leaves in the persisted checkpoint at its end,
\* beyond those there at its start, has its record in the list the run returns.
C19_CheckpointedPagesDelivered ==
  RunEnded =>
    (Range(load_checkpoint(ckptFile)) \ Range(load_checkpoint(ckpt0))) \subseteq
      Range(RecordPages(result.docs))

Running == {c \in Callers : cstate[c] \in {"running", "calling"}}

InReadtext == {t \in Threads : tstate[t] = "readtext"}

\* C8: at most one thread at a time executes reader.readtext, over all pool
\* workers and run threads of all runs, and READTEXT_LOCK is held exactly
\* while a thread is inside readtext (it is free again after every call).
C8_ReadtextMutualExclusion ==
  /\ Cardinality(InReadtext) <= 1
  /\ (lock = 0 <=> InReadtext = {})
  /\ (lock # 0 => InReadtext = {lock})

C8_Witness ==
  /\ lock # 0
  /\ \E u \in Workers, v \in Threads \ Workers :
       /\ tstate[u] = "enter"
       /\ tstate[v] = "enter"

\* C9: the number of runs started through the async wrappers and not yet
\* finished never exceeds OCR_CONCURRENCY, and every run that ends (with
\* records, empty, or by raising) has given its permit back.
C9_ConcurrencyBound ==
  /\ Cardinality(Running) <= OCR_CONCURRENCY
  /\ sem >= 0
  /\ sem + Cardinality(Running) = OCR_CONCURRENCY

C9_Witness ==
  /\ Cardinality(Running) = OCR_CONCURRENCY - 1
  /\ sem = 1
  /\ \E c \in Callers : cstate[c] = "waiting"
  /\ last_end = "raised"

C21_OneProcessorPerKey ==
  \A k \in Keys :
    /\ constructed[k] <= 1
    /\ Cardinality(returned[k]) <= 1

====
